---- MODULE Spec2Model ----
(***************************************************************************)
(* UploadxClient (src/src/client.ts): resumable, chunked uploads.          *)
(*                                                                         *)
(* One client instance, its abort controller, and the transfers started on *)
(* it.  The HTTP transport (axios + axios-retry) and the server are the    *)
(* environment: a request handed to the transport is refused when its      *)
(* signal is already aborted, and otherwise ends with a response, with a   *)
(* transport failure, or cancelled once its signal is aborted.             *)
(*                                                                         *)
(* A source byte is named by its index in the source; a chunk body is the  *)
(* interval [lo, hi) of the source indices it carries.                     *)
(***************************************************************************)
EXTENDS Integers, Sequences, FiniteSets, TLC

\* Bounds of the model.
MaxSize == 3        \* metadata.size ranges over 0..MaxSize
MaxChunk == 2       \* config.chunkSize ranges over 1..MaxChunk
MaxAborts == 1      \* abort() is called at most MaxAborts times
ClientSize == 2     \* metadata.size of the transfers that share a client
MaxReports == 2     \* the transport reports progress at most MaxReports times

MaxPush == MaxSize      \* a push stream delivers at most MaxPush bytes in all
MaxReqs == MaxSize + 2  \* the data callback stops at MaxReqs requests in all

\* The AbortController made by the field initialiser, whose signal the
\* constructor gives to axios.create as the instance default.
DefaultSignal == 0

AllTransfers == {1, 2}

VARIABLES
    isNode,           \* the runtime is Node.js
    chunkSize,        \* this.chunkSize
    abortController,  \* this.abortController: the id of the current controller
    ctlAborted,       \* ids of the client's controllers that have been aborted
    sigAborted,       \* transfers whose per-call signal has been aborted
    call,             \* per transfer: the public call, its arguments and outcome
    drv,              \* per transfer: the driver's locals
    stream,           \* per transfer: the push stream handed in as data
    reqs,             \* per transfer: the requests handed to the transport
    srv,              \* per transfer: the server's side of the session
    running,          \* the transfer whose data callback is executing, if any
    inFlightAtAbort,  \* history: transfers that were running at an abort()
    progress          \* per transfer: the progress reports and onProgress calls

vars == <<isNode, chunkSize, abortController, ctlAborted, sigAborted, call,
          drv, stream, reqs, srv, running, inFlightAtAbort, progress>>

Min(a, b) == IF a < b THEN a ELSE b
Max(a, b) == IF a > b THEN a ELSE b

----------------------------------------------------------------------------
\* Errors.  ctx is the message: the context prefixes handleError has put in
\* front of the original message, outermost first.

AbortError == [name |-> "AbortError", ctx |-> <<"Operation aborted">>]
CanceledError == [name |-> "AxiosError", ctx |-> <<"canceled">>]
NetworkError == [name |-> "AxiosError", ctx |-> <<"Network Error">>]
PlainError(msg) == [name |-> "Error", ctx |-> <<msg>>]
NoError == [name |-> "none", ctx |-> <<>>]

handleError(error, context) ==
    IF error.name = "AbortError"
    THEN error
    ELSE [name |-> "Error", ctx |-> <<context>> \o error.ctx]

\* The received-byte range header of a response.
NoRange == [form |-> "absent", last |-> 0]
BadRange == [form |-> "other", last |-> 0]
Bytes(n) == [form |-> "bytes", last |-> n - 1]
RangeHeaders == {NoRange, BadRange} \cup {Bytes(n) : n \in 1..(MaxSize + 1)}

\* A parse that returns the end of the range, not the count of bytes.
parseRangeHeaderReturnsEnd(range) ==
    IF range.form = "absent" THEN 0
    ELSE IF range.form = "bytes" THEN range.last ELSE 0

parseRangeHeader(range) ==
    IF range.form = "absent" THEN 0
    ELSE IF range.form = "bytes" THEN range.last + 1 ELSE 0

\* What a server that reports exactly what it holds puts in the header.
HonestRange(held) == IF held = 0 THEN NoRange ELSE Bytes(held)

\* The server writes at the declared start, when that leaves no gap, the bytes
\* of the body up to the length of the declared range.
Store(held, r) ==
    IF r.start <= held
    THEN Max(held, r.start + Min(r.hi - r.lo, r.end - r.start))
    ELSE held

----------------------------------------------------------------------------
\* Source classification (upload / resumeUpload).

isBlob(data) == data = "blob"
isStream(data) == data = "stream"

\* A classification that knows no streams.
DriverOfNeverStream(data) ==
    IF isBlob(data) THEN "blob" ELSE "buffer"

DriverOf(data) ==
    IF isBlob(data) THEN "blob" ELSE IF isStream(data) THEN "stream" ELSE "buffer"

Driver(t) ==
    IF call[t].op \in {"fileUpload", "resumeFileUpload"}
    THEN "file" ELSE DriverOf(call[t].data)

\* The context a public call wraps its failures in.
ContextOf(op) ==
    IF op \in {"fileUpload", "resumeFileUpload"}
    THEN "File upload failed" ELSE "Upload failed"

\* signal?.aborted, as the drivers test it: the per-call signal only.
SignalAborted(t) == call[t].signal /\ t \in sigAborted

\* A transport that takes any aborted per-call signal for the signal of the
\* request.
TransportAbortedWithAnyHandle(hasSignal, t) ==
    IF hasSignal THEN sigAborted # {} ELSE DefaultSignal \in ctlAborted

\* The signal the transport observes for a request: the per-call signal when
\* one is given, else the instance default given to axios.create.
TransportAbortedWith(hasSignal, t) ==
    IF hasSignal THEN t \in sigAborted ELSE DefaultSignal \in ctlAborted

TransportAborted(t) == TransportAbortedWith(call[t].signal, t)

----------------------------------------------------------------------------
\* Requests.

Request(t, hasSignal, kind, via, start, end, total, lo, hi) ==
    [kind |-> kind, via |-> via, start |-> start, end |-> end, total |-> total,
     lo |-> lo, hi |-> hi,
     sent |-> ~TransportAbortedWith(hasSignal, t),
     status |-> "pending", location |-> TRUE, range |-> NoRange]

Pending(t) == {i \in 1..Len(reqs[t]) : reqs[t][i].status = "pending"}

Chunks(t) == {i \in 1..Len(reqs[t]) : reqs[t][i].kind = "chunk"}

\* The range headers a server of the given kind can answer request i with:
\* an exact server reports the bytes it holds, any other server anything.
Ranges(t, i, server) ==
    IF server = "exact"
    THEN {HonestRange(IF reqs[t][i].kind = "chunk"
                      THEN Store(srv[t].held, reqs[t][i]) ELSE srv[t].held)}
    ELSE RangeHeaders

\* What the transport can make of pending request i of transfer t.
Outcomes(t, i, server) ==
    IF ~reqs[t][i].sent
    THEN {[status |-> "canceled", range |-> NoRange, location |-> TRUE,
           error |-> CanceledError]}
    ELSE {[status |-> "ok", range |-> h, location |-> l, error |-> NoError] :
             h \in Ranges(t, i, server),
             l \in IF reqs[t][i].kind = "create" /\ server # "exact"
                   THEN BOOLEAN ELSE {TRUE}}
         \cup {[status |-> "failed", range |-> NoRange, location |-> TRUE,
                error |-> NetworkError]}
         \cup (IF TransportAborted(t)
               THEN {[status |-> "canceled", range |-> NoRange,
                      location |-> TRUE, error |-> CanceledError]}
               ELSE {})

\* What a status query can end with: the outcomes of the transport and, once
\* the signal is aborted, a rejection with the client's own AbortError.
StatusOutcomes(t, i, server) ==
    Outcomes(t, i, server)
    \cup (IF TransportAborted(t)
          THEN {[status |-> "aborted", range |-> NoRange, location |-> TRUE,
                 error |-> AbortError]}
          ELSE {})

\* The server's side after request i got outcome o: held is the number of
\* bytes it holds (what its session response reports, then what it stores),
\* exact stays TRUE while every chunk response reported exactly that.
Served(t, i, o) ==
    IF o.status # "ok" THEN srv[t]
    ELSE IF reqs[t][i].kind = "chunk"
    THEN LET held == Store(srv[t].held, reqs[t][i])
         IN [held |-> held,
             exact |-> srv[t].exact /\ o.range = HonestRange(held)]
    ELSE IF reqs[t][i].kind \in {"create", "status"}
    THEN [srv[t] EXCEPT !.held = parseRangeHeader(o.range)]
    ELSE srv[t]

\* The log with request i settled by outcome o; of the response to a
\* session request the log keeps the range header.
Settled(t, i, o) ==
    [reqs[t] EXCEPT ![i] =
        [@ EXCEPT !.status = o.status, !.location = o.location,
                  !.range = IF reqs[t][i].kind \in {"create", "status"}
                            THEN o.range ELSE NoRange]]

\* The result of the latest response a driver got: the request it answers,
\* its range header and the uploadedBytes parsed from it.
Result(i, o) ==
    [req |-> i, range |-> o.range, uploadedBytes |-> parseRangeHeader(o.range)]

NoResult == [req |-> 0, range |-> NoRange, uploadedBytes |-> 0]

----------------------------------------------------------------------------
\* The state of a transfer nobody has started.

IdleCall ==
    [op |-> "none", data |-> "none", size |-> 0, signal |-> FALSE,
     fileSize |-> 0, pc |-> "idle", outcome |-> "pending", error |-> NoError,
     abortsAtStart |-> 0, prior |-> FALSE]

NoChunks == [length |-> 0, buf |-> <<0, 0>>]

IdleDriver ==
    [started |-> FALSE, driver |-> "none", start |-> 0, position |-> 0,
     chunks |-> NoChunks,
     chunksSize |-> 0, settled |-> FALSE, listening |-> FALSE,
     attached |-> FALSE, result |-> NoResult]

IdleStream ==
    [pushed |-> 0, flowing |-> FALSE, ended |-> FALSE, errored |-> FALSE]

\* No progress reported yet: reports counts the progress events of the
\* transport, samples the calls of onProgress; req and loaded are the last
\* report, value (num / den) the last value passed to onProgress.
NoProgress ==
    [reports |-> 0, samples |-> 0, req |-> 0, loaded |-> 0,
     value |-> [num |-> 0, den |-> 1]]

Init ==
    /\ isNode \in BOOLEAN
    /\ chunkSize \in 1..MaxChunk
    /\ abortController = DefaultSignal
    /\ ctlAborted = {}
    /\ sigAborted = {}
    /\ call = [t \in AllTransfers |-> IdleCall]
    /\ drv = [t \in AllTransfers |-> IdleDriver]
    /\ stream = [t \in AllTransfers |-> IdleStream]
    /\ reqs = [t \in AllTransfers |-> <<>>]
    /\ srv = [t \in AllTransfers |-> [held |-> 0, exact |-> TRUE]]
    /\ running = {}
    /\ inFlightAtAbort = {}
    /\ progress = [t \in AllTransfers |-> NoProgress]

\* A step that keeps the driver's locals in one place for all transfers.
StepSharedLocals(t, c, d, s, q) ==
    /\ call' = [call EXCEPT ![t] = c]
    /\ drv' = [u \in AllTransfers |-> d]
    /\ stream' = [stream EXCEPT ![t] = s]
    /\ reqs' = [reqs EXCEPT ![t] = q]

\* One step of transfer t: its call, driver, stream and request log after it.
Step(t, c, d, s, q) ==
    /\ call' = [call EXCEPT ![t] = c]
    /\ drv' = [drv EXCEPT ![t] = d]
    /\ stream' = [stream EXCEPT ![t] = s]
    /\ reqs' = [reqs EXCEPT ![t] = q]

\* A catch that does not let AbortError pass silently.
FinishCallRethrowsAbort(c, e) ==
    IF e.name = "none"
    THEN [c EXCEPT !.pc = "done", !.outcome = "resolved"]
    ELSE [c EXCEPT !.pc = "done", !.outcome = "rejected",
                   !.error = handleError(e, ContextOf(c.op))]

\* The try/catch of upload, resumeUpload, fileUpload and resumeFileUpload:
\* the body returned (NoError) or threw e.
FinishCall(c, e) ==
    IF e.name = "none" \/ e.name = "AbortError"
    THEN [c EXCEPT !.pc = "done", !.outcome = "resolved"]
    ELSE [c EXCEPT !.pc = "done", !.outcome = "rejected",
                   !.error = handleError(e, ContextOf(c.op))]

\* The bytes a pull-based driver puts in the body of the chunk [position, end).
PullBody(t, position, end) ==
    IF Driver(t) = "file"
    THEN LET lo == Min(position, call[t].fileSize)
         IN <<lo, Max(lo, Min(end + 1, call[t].fileSize))>>
    ELSE <<position, end>>

\* uploadBufferInChunks, uploadBlobInChunks and uploadFileInChunks from the
\* top of the while loop down to the next await.
RunPull(t, d, position, q) ==
    LET totalSize == call[t].size
        at == [d EXCEPT !.position = position]
    IN IF position < totalSize
       THEN IF SignalAborted(t)
            THEN Step(t, FinishCall(call[t], AbortError), at, stream[t], q)
            ELSE LET end == Min(position + chunkSize, totalSize)
                     body == PullBody(t, position, end)
                 IN Step(t, [call[t] EXCEPT !.pc = "driver"], at, stream[t],
                         Append(q, Request(t, call[t].signal, "chunk", "pull",
                                           position, end, totalSize,
                                           body[1], body[2])))
       ELSE Step(t, FinishCall(call[t], NoError), at, stream[t], q)

\* uploadStreamInChunks up to the return of the Promise executor.
RunStream(t, d, q) ==
    IF ~isNode
    THEN Step(t, FinishCall(call[t], PlainError("Stream uploads are only available in Node.js environment")),
              d, stream[t], q)
    ELSE IF SignalAborted(t)
    THEN Step(t, FinishCall(call[t], AbortError), [d EXCEPT !.settled = TRUE],
              stream[t], q)
    ELSE Step(t, [call[t] EXCEPT !.pc = "driver"],
              [d EXCEPT !.listening = call[t].signal, !.attached = TRUE],
              [stream[t] EXCEPT !.flowing = TRUE], q)

\* A driver entered at offset 0 whatever the session response carries.
StartDriverIgnoresSession(t, session, q) ==
    LET d == [drv[t] EXCEPT !.started = TRUE, !.driver = Driver(t),
                            !.start = 0, !.position = 0, !.result = session]
    IN CASE Driver(t) = "stream" -> RunStream(t, d, q)
         [] Driver(t) = "file" ->
              IF ~isNode
              THEN Step(t, FinishCall(call[t], PlainError("uploadAsFile is only available in Node.js environment")),
                        d, stream[t], q)
              ELSE RunPull(t, d, 0, q)
         [] OTHER -> RunPull(t, d, 0, q)

\* The driver the call selects, entered with the starting offset the
\* session response carries (session.uploadedBytes || 0, response.uploadedBytes).
StartDriver(t, session, q) ==
    LET start == session.uploadedBytes
        d == [drv[t] EXCEPT !.started = TRUE, !.driver = Driver(t),
                            !.start = start, !.position = start,
                            !.result = session]
    IN CASE d.driver = "stream" -> RunStream(t, d, q)
         [] d.driver = "file" ->
              IF ~isNode
              THEN Step(t, FinishCall(call[t], PlainError("uploadAsFile is only available in Node.js environment")),
                        d, stream[t], q)
              ELSE RunPull(t, d, start, q)
         [] OTHER -> RunPull(t, d, start, q)

----------------------------------------------------------------------------
\* The public calls.  Each hands its first request to the transport.

NewCall(t, op, data, size, signal, fileSize) ==
    [op |-> op, data |-> data, size |-> size, signal |-> signal,
     fileSize |-> fileSize, pc |-> "session", outcome |-> "pending",
     error |-> NoError, abortsAtStart |-> abortController, prior |-> FALSE]

\* createUpload up to its await: the session-creation POST.
createUpload(t, signal, size) ==
    Request(t, signal, "create", "call", 0, 0, size, 0, 0)

\* getUploadStatus up to its await: the zero-body status PUT.
getUploadStatus(t, signal, size) ==
    Request(t, signal, "status", "call", 0, 0, size, 0, 0)

upload(t, Sources, Sizes) ==
    /\ running = {}
    /\ call[t].pc = "idle"
    /\ \E data \in Sources, size \in Sizes,
          signal \in BOOLEAN :
          Step(t, NewCall(t, "upload", data, size, signal, 0), drv[t],
               stream[t], <<createUpload(t, signal, size)>>)
    /\ UNCHANGED <<progress, isNode, chunkSize, abortController, ctlAborted, sigAborted,
                   srv, running, inFlightAtAbort>>

\* The session of transfer t has had one call, which failed or was
\* cancelled, and nothing of that call is still running.
Resumable(t) ==
    /\ call[t].pc = "done" /\ ~call[t].prior
    /\ call[t].outcome = "rejected" \/ t \in sigAborted
    /\ Pending(t) = {}
    /\ ~(drv[t].attached /\ ~stream[t].ended /\ ~stream[t].errored)

\* The first request of a call that resumes the session of an earlier call,
\* under a signal of its own that is not aborted.
AgainUnder(signal, request) ==
    [request EXCEPT !.sent = signal \/ DefaultSignal \notin ctlAborted]

\* resumeUpload, as the first call on a session or after a call on the same
\* session and source that failed or was cancelled.
resumeUpload(t, Sources, Sizes) ==
    /\ running = {}
    /\ \/ /\ call[t].pc = "idle"
          /\ \E data \in Sources, size \in Sizes,
                signal \in BOOLEAN :
                Step(t, NewCall(t, "resumeUpload", data, size, signal, 0),
                     drv[t], stream[t], <<getUploadStatus(t, signal, size)>>)
          /\ UNCHANGED sigAborted
       \/ /\ Resumable(t)
          /\ call[t].op \in {"upload", "resumeUpload"}
          /\ \E signal \in BOOLEAN :
                Step(t, [NewCall(t, "resumeUpload", call[t].data, call[t].size,
                                 signal, 0) EXCEPT !.prior = TRUE],
                     IdleDriver, IdleStream,
                     <<AgainUnder(signal,
                                  getUploadStatus(t, signal, call[t].size))>>)
          /\ sigAborted' = sigAborted \ {t}
    /\ UNCHANGED <<progress, isNode, chunkSize, abortController, ctlAborted,
                   srv, running, inFlightAtAbort>>

\* fileUpload: createFileUpload declares the size of the file on disk to the
\* server, the driver runs on metadata.size.
fileUpload(t) ==
    /\ running = {}
    /\ call[t].pc = "idle"
    /\ \E size \in 0..MaxSize, fileSize \in 0..MaxSize, signal \in BOOLEAN :
          LET c == NewCall(t, "fileUpload", "path", size, signal, fileSize)
          IN IF ~isNode
             THEN Step(t, FinishCall(c, PlainError("uploadAsFile is only available in Node.js environment")),
                       drv[t], stream[t], reqs[t])
             ELSE Step(t, c, drv[t], stream[t],
                       <<createUpload(t, signal, fileSize)>>)
    /\ UNCHANGED <<progress, isNode, chunkSize, abortController, ctlAborted, sigAborted,
                   srv, running, inFlightAtAbort>>

\* resumeFileUpload: the runtime test is outside the try block.  As
\* resumeUpload, it is the first call on a session or follows one that failed
\* or was cancelled.
resumeFileUpload(t) ==
    /\ running = {}
    /\ \/ /\ call[t].pc = "idle"
          /\ \E size \in 0..MaxSize, fileSize \in 0..MaxSize,
                signal \in BOOLEAN :
                LET c == NewCall(t, "resumeFileUpload", "path", size, signal,
                                 fileSize)
                IN IF ~isNode
                   THEN Step(t, [c EXCEPT !.pc = "done", !.outcome = "rejected",
                                          !.error = PlainError("uploadAsFile is only available in Node.js environment")],
                             drv[t], stream[t], reqs[t])
                   ELSE Step(t, c, drv[t], stream[t],
                             <<getUploadStatus(t, signal, size)>>)
          /\ UNCHANGED sigAborted
       \/ /\ Resumable(t)
          /\ isNode
          /\ call[t].op \in {"fileUpload", "resumeFileUpload"}
          /\ \E signal \in BOOLEAN :
                Step(t, [NewCall(t, "resumeFileUpload", "path", call[t].size,
                                 signal, call[t].fileSize)
                            EXCEPT !.prior = TRUE],
                     IdleDriver, IdleStream,
                     <<AgainUnder(signal,
                                  getUploadStatus(t, signal, call[t].size))>>)
          /\ sigAborted' = sigAborted \ {t}
    /\ UNCHANGED <<progress, isNode, chunkSize, abortController, ctlAborted,
                   srv, running, inFlightAtAbort>>

\* createUpload without its test of the location header.
createUploadThrowsUnchecked(o) ==
    IF o.status # "ok"
    THEN handleError(o.error, "Session creation failed")
    ELSE NoError

\* What the rest of createUpload throws on outcome o of its POST, if anything.
createUploadThrows(o) ==
    IF o.status # "ok"
    THEN handleError(o.error, "Session creation failed")
    ELSE IF ~o.location
    THEN handleError(PlainError("Missing Location header in response"),
                     "Session creation failed")
    ELSE NoError

\* The session-creation response: the rest of createUpload, then the rest of
\* upload / fileUpload down to the driver's first await.
createUploadResponse(t, server) ==
    /\ running = {}
    /\ call[t].pc = "session"
    /\ \E i \in Pending(t) :
          /\ reqs[t][i].kind = "create"
          /\ \E o \in Outcomes(t, i, server) :
                LET q == Settled(t, i, o)
                    thrown == createUploadThrows(o)
                IN /\ IF thrown # NoError
                      THEN Step(t, FinishCall(call[t], thrown), drv[t],
                                stream[t], q)
                      ELSE StartDriver(t, Result(i, o), q)
                   /\ srv' = [srv EXCEPT ![t] = Served(t, i, o)]
    /\ UNCHANGED <<progress, isNode, chunkSize, abortController, ctlAborted, sigAborted,
                   running, inFlightAtAbort>>

\* The status response: the rest of getUploadStatus, then the rest of
\* resumeUpload / resumeFileUpload down to the driver's first await.
getUploadStatusResponse(t, server) ==
    /\ running = {}
    /\ call[t].pc = "session"
    /\ \E i \in Pending(t) :
          /\ reqs[t][i].kind = "status"
          /\ \E o \in StatusOutcomes(t, i, server) :
                LET q == Settled(t, i, o)
                IN /\ IF o.status # "ok"
                      THEN Step(t, FinishCall(call[t], o.error), drv[t],
                                stream[t], q)
                      ELSE StartDriver(t, Result(i, o), q)
                   /\ srv' = [srv EXCEPT ![t] = Served(t, i, o)]
    /\ UNCHANGED <<progress, isNode, chunkSize, abortController, ctlAborted, sigAborted,
                   running, inFlightAtAbort>>

\* A driver that continues from the offset the server acknowledged.
NextPositionFromAck(driver, end, uploadedBytes) == uploadedBytes

\* The position a pull-based driver continues from after a chunk response.
NextPosition(driver, end, uploadedBytes) ==
    IF driver = "file" /\ uploadedBytes > end THEN uploadedBytes ELSE end

\* A chunk response in a pull-based driver: the rest of uploadChunk, the
\* position update, and the loop down to the next await.
uploadChunkResponse(t, server) ==
    /\ running = {}
    /\ call[t].pc = "driver"
    /\ \E i \in Pending(t) :
          /\ reqs[t][i].via = "pull"
          /\ \E o \in Outcomes(t, i, server) :
                /\ LET q == Settled(t, i, o)
                   IN IF o.status # "ok"
                      THEN Step(t, FinishCall(call[t], o.error), drv[t],
                                stream[t], q)
                      ELSE RunPull(t, [drv[t] EXCEPT !.result = Result(i, o)],
                                   NextPosition(Driver(t), reqs[t][i].end,
                                                parseRangeHeader(o.range)),
                                   q)
                /\ srv' = [srv EXCEPT ![t] = Served(t, i, o)]
    /\ UNCHANGED <<progress, isNode, chunkSize, abortController, ctlAborted, sigAborted,
                   running, inFlightAtAbort>>

----------------------------------------------------------------------------
\* The public operations called on their own: one request each.

DirectCall(t, op, size, signal, kind) ==
    Step(t, [NewCall(t, op, "none", size, signal, 0) EXCEPT !.pc = "direct"],
         drv[t], stream[t],
         <<Request(t, signal, kind, "call", 0, 0, size, 0, 0)>>)

\* createUpload called by the user of the client.
callCreateUpload(t, Sizes) ==
    /\ running = {}
    /\ call[t].pc = "idle"
    /\ \E size \in Sizes, signal \in BOOLEAN :
          DirectCall(t, "createUpload", size, signal, "create")
    /\ UNCHANGED <<progress, isNode, chunkSize, abortController, ctlAborted, sigAborted,
                   srv, running, inFlightAtAbort>>

\* getUploadStatus called by the user of the client.
callGetUploadStatus(t, Sizes) ==
    /\ running = {}
    /\ call[t].pc = "idle"
    /\ \E size \in Sizes, signal \in BOOLEAN :
          DirectCall(t, "getUploadStatus", size, signal, "status")
    /\ UNCHANGED <<progress, isNode, chunkSize, abortController, ctlAborted, sigAborted,
                   srv, running, inFlightAtAbort>>

updateUpload(t) ==
    /\ running = {}
    /\ call[t].pc = "idle"
    /\ \E signal \in BOOLEAN :
          DirectCall(t, "updateUpload", 0, signal, "patch")
    /\ UNCHANGED <<progress, isNode, chunkSize, abortController, ctlAborted, sigAborted,
                   srv, running, inFlightAtAbort>>

deleteUpload(t) ==
    /\ running = {}
    /\ call[t].pc = "idle"
    /\ \E signal \in BOOLEAN :
          DirectCall(t, "deleteUpload", 0, signal, "delete")
    /\ UNCHANGED <<progress, isNode, chunkSize, abortController, ctlAborted, sigAborted,
                   srv, running, inFlightAtAbort>>

\* What the operation throws to its caller on outcome o of its request.
Thrown(op, o) ==
    CASE op = "createUpload" -> createUploadThrows(o)
      [] op = "getUploadStatus" ->
           IF o.status # "ok" THEN o.error ELSE NoError
      [] op = "updateUpload" ->
           IF o.status # "ok"
           THEN handleError(o.error, "Failed to update metadata")
           ELSE NoError
      [] op = "deleteUpload" -> NoError

\* The response to the request of an operation called on its own: the rest
\* of the operation.
directResponse(t, server) ==
    /\ running = {}
    /\ call[t].pc = "direct"
    /\ \E i \in Pending(t) :
          \E o \in IF reqs[t][i].kind = "status"
                   THEN StatusOutcomes(t, i, server)
                   ELSE Outcomes(t, i, server) :
             LET thrown == Thrown(call[t].op, o)
             IN /\ Step(t,
                        IF thrown = NoError
                        THEN [call[t] EXCEPT !.pc = "done",
                                             !.outcome = "resolved"]
                        ELSE [call[t] EXCEPT !.pc = "done",
                                             !.outcome = "rejected",
                                             !.error = thrown],
                        [drv[t] EXCEPT !.result =
                            IF thrown = NoError
                               /\ reqs[t][i].kind \in {"create", "status"}
                            THEN Result(i, o) ELSE @],
                        stream[t], Settled(t, i, o))
                /\ srv' = [srv EXCEPT ![t] = Served(t, i, o)]
    /\ UNCHANGED <<progress, isNode, chunkSize, abortController, ctlAborted, sigAborted,
                   running, inFlightAtAbort>>

----------------------------------------------------------------------------
\* The stream driver.  The buffers in chunks are adjacent pieces of the
\* stream: chunks is kept as whether it has any element (length, which counts
\* no further than 1) and the interval buf of stream bytes they hold together.

\* chunks.push(chunk) for the bytes [from, to) of the stream.
Push(chunks, from, to) ==
    [length |-> 1,
     buf |-> IF chunks.length = 0 THEN <<from, to>> ELSE <<chunks.buf[1], to>>]

\* Buffer.concat(chunks)
Concat(chunks) == chunks.buf

\* An index argument of Buffer.slice on a buffer of len bytes.
SliceIndex(len, k) == IF k < 0 THEN Max(len + k, 0) ELSE Min(k, len)

\* A slice that keeps the bytes it should drop.
SliceFromKeepsAll(buf, from) == buf

\* buf.slice(from) and buf.slice(0, to) on the interval buf.
SliceFrom(buf, from) ==
    <<buf[1] + SliceIndex(buf[2] - buf[1], from), buf[2]>>
SliceTo(buf, to) ==
    <<buf[1], buf[1] + SliceIndex(buf[2] - buf[1], to)>>

\* resolve() (e = NoError) or reject(e) of the driver's promise, and with it
\* the try/catch of the public call; a settled promise stays as it is.
SettleCall(t, d, e) ==
    IF d.settled THEN call[t] ELSE FinishCall(call[t], e)

StreamLive(t) ==
    drv[t].attached /\ ~stream[t].ended /\ ~stream[t].errored

\* A 'data' event of n bytes, of a stream that delivers at most most bytes
\* in all: the callback up to the test of its while loop.
streamData(t, most) ==
    /\ running = {}
    /\ StreamLive(t)
    /\ stream[t].flowing
    /\ \E n \in 1..(most - stream[t].pushed) :
          LET from == stream[t].pushed
              size == drv[t].chunksSize + n
          IN /\ Step(t, call[t],
                     [drv[t] EXCEPT
                         !.chunks = Push(@, from, from + n),
                         !.chunksSize = size],
                     [stream[t] EXCEPT !.pushed = from + n], reqs[t])
             /\ running' = IF size >= chunkSize THEN {t} ELSE {}
    /\ UNCHANGED <<progress, isNode, chunkSize, abortController, ctlAborted, sigAborted,
                   srv, inFlightAtAbort>>

\* One iteration of the while loop of the data callback.
streamCut(t) ==
    /\ running = {t}
    /\ Len(reqs[t]) < MaxReqs
    /\ LET position == drv[t].position
           end == Min(position + chunkSize, call[t].size)
           chunkBuffer == Concat(drv[t].chunks)
           rest == SliceFrom(chunkBuffer, end - position)
           size == (chunkBuffer[2] - chunkBuffer[1]) - (end - position)
           body == SliceTo(chunkBuffer, end - position)
       IN /\ Step(t, call[t],
                  [drv[t] EXCEPT !.chunks = [length |-> 1, buf |-> rest],
                                 !.chunksSize = size],
                  [stream[t] EXCEPT !.flowing = FALSE],
                  Append(reqs[t], Request(t, call[t].signal, "chunk", "loop",
                                          position, end, call[t].size,
                                          body[1], body[2])))
          /\ running' = IF size >= chunkSize THEN {t} ELSE {}
    /\ UNCHANGED <<progress, isNode, chunkSize, abortController, ctlAborted, sigAborted,
                   srv, inFlightAtAbort>>

\* The then / catch of an upload started by the data callback.
streamChunkResponse(t, server) ==
    /\ running = {}
    /\ \E i \in Pending(t) :
          /\ reqs[t][i].via = "loop"
          /\ \E o \in Outcomes(t, i, server) :
                /\ IF o.status = "ok"
                   THEN Step(t, call[t],
                             [drv[t] EXCEPT !.position = reqs[t][i].end],
                             [stream[t] EXCEPT !.flowing = TRUE],
                             Settled(t, i, o))
                   ELSE Step(t, SettleCall(t, drv[t], o.error),
                             [drv[t] EXCEPT !.settled = TRUE],
                             stream[t], Settled(t, i, o))
                /\ srv' = [srv EXCEPT ![t] = Served(t, i, o)]
    /\ UNCHANGED <<progress, isNode, chunkSize, abortController, ctlAborted, sigAborted,
                   running, inFlightAtAbort>>

\* The 'end' event: the callback down to its await or its return.
streamEnd(t) ==
    /\ running = {}
    /\ StreamLive(t)
    /\ stream[t].flowing
    /\ LET d == [drv[t] EXCEPT !.listening = FALSE]
           s == [stream[t] EXCEPT !.ended = TRUE]
       IN IF drv[t].chunks.length > 0
          THEN IF SignalAborted(t)
               THEN Step(t, SettleCall(t, d, AbortError),
                         [d EXCEPT !.settled = TRUE], s, reqs[t])
               ELSE LET position == drv[t].position
                        end == Min(position + drv[t].chunksSize, call[t].size)
                        chunkBuffer == Concat(drv[t].chunks)
                    IN Step(t, call[t], d, s,
                            Append(reqs[t],
                                   Request(t, call[t].signal, "chunk", "flush",
                                           position, end, call[t].size,
                                           chunkBuffer[1], chunkBuffer[2])))
          ELSE Step(t, SettleCall(t, d, NoError), [d EXCEPT !.settled = TRUE],
                    s, reqs[t])
    /\ UNCHANGED <<progress, isNode, chunkSize, abortController, ctlAborted, sigAborted,
                   srv, running, inFlightAtAbort>>

\* The rest of the 'end' callback after its await.
streamFlushResponse(t, server) ==
    /\ running = {}
    /\ \E i \in Pending(t) :
          /\ reqs[t][i].via = "flush"
          /\ \E o \in Outcomes(t, i, server) :
                /\ IF o.status = "ok"
                   THEN Step(t, SettleCall(t, drv[t], NoError),
                             [drv[t] EXCEPT !.position = @ + drv[t].chunksSize,
                                            !.settled = TRUE],
                             stream[t], Settled(t, i, o))
                   ELSE Step(t, SettleCall(t, drv[t], o.error),
                             [drv[t] EXCEPT !.settled = TRUE],
                             stream[t], Settled(t, i, o))
                /\ srv' = [srv EXCEPT ![t] = Served(t, i, o)]
    /\ UNCHANGED <<progress, isNode, chunkSize, abortController, ctlAborted, sigAborted,
                   running, inFlightAtAbort>>

\* The 'error' event of the stream.
streamError(t) ==
    /\ running = {}
    /\ StreamLive(t)
    /\ Step(t, SettleCall(t, drv[t], PlainError("stream error")),
            [drv[t] EXCEPT !.listening = FALSE, !.settled = TRUE],
            [stream[t] EXCEPT !.errored = TRUE], reqs[t])
    /\ UNCHANGED <<progress, isNode, chunkSize, abortController, ctlAborted, sigAborted,
                   srv, running, inFlightAtAbort>>

----------------------------------------------------------------------------
\* Progress.

\* The value that is not clamped to 1.
ProgressValueUnclamped(start, loaded, totalSize) ==
    [num |-> start + loaded, den |-> totalSize]

\* Math.min(progress, 1) for progress = (start + loaded) / totalSize, as the
\* fraction num / den.
ProgressValue(start, loaded, totalSize) ==
    IF start + loaded > totalSize
    THEN [num |-> 1, den |-> 1]
    ELSE [num |-> start + loaded, den |-> totalSize]

\* The transport reports that loaded bytes of the body of a chunk request in
\* flight have been sent: the onUploadProgress callback of uploadChunk, for a
\* call that was given onProgress.
onUploadProgress(t) ==
    /\ running = {}
    /\ progress[t].reports < MaxReports
    /\ \E i \in Pending(t) :
          /\ reqs[t][i].kind = "chunk" /\ reqs[t][i].sent
          /\ \E loaded \in 0..(reqs[t][i].hi - reqs[t][i].lo) :
                progress' = [progress EXCEPT ![t] =
                    [reports |-> @.reports + 1,
                     samples |-> @.samples + 1,
                     req |-> i, loaded |-> loaded,
                     value |-> ProgressValue(reqs[t][i].start, loaded,
                                             reqs[t][i].total)]]
    /\ UNCHANGED <<isNode, chunkSize, abortController, ctlAborted, sigAborted,
                   call, drv, stream, reqs, srv, running, inFlightAtAbort>>

----------------------------------------------------------------------------
\* Cancellation.

\* The caller aborts the controller whose signal it passes (or will pass) to
\* the call of transfer t; the stream driver's abortHandler runs if listening.
signalAbort(t) ==
    /\ running = {}
    /\ t \notin sigAborted
    /\ call[t].pc = "idle" \/ (call[t].signal /\ call[t].pc # "done")
    /\ sigAborted' = sigAborted \cup {t}
    /\ IF drv[t].listening
       THEN Step(t, SettleCall(t, drv[t], AbortError),
                 [drv[t] EXCEPT !.settled = TRUE], stream[t], reqs[t])
       ELSE UNCHANGED <<call, drv, stream, reqs>>
    /\ UNCHANGED <<progress, isNode, chunkSize, abortController, ctlAborted, srv,
                   running, inFlightAtAbort>>

\* abort(): abort the current controller and put a new one in its place.
abort ==
    /\ running = {}
    /\ abortController < MaxAborts
    /\ ctlAborted' = ctlAborted \cup {abortController}
    /\ abortController' = abortController + 1
    /\ inFlightAtAbort' =
          inFlightAtAbort \cup {t \in AllTransfers : call[t].pc \in {"session", "driver"}}
    /\ UNCHANGED <<progress, isNode, chunkSize, sigAborted, call, drv, stream, reqs,
                   srv, running>>

----------------------------------------------------------------------------
\* One transfer, with every source, size and server response, cancelled
\* through its per-call signal.
Transfers == {1}
Sources == {"buffer", "blob", "stream"}
Sizes == 0..MaxSize

Next ==
    \/ \E t \in Transfers : upload(t, Sources, Sizes)
    \/ \E t \in Transfers : resumeUpload(t, Sources, Sizes)
    \/ \E t \in Transfers : fileUpload(t)
    \/ \E t \in Transfers : resumeFileUpload(t)
    \/ \E t \in Transfers : createUploadResponse(t, "any")
    \/ \E t \in Transfers : getUploadStatusResponse(t, "any")
    \/ \E t \in Transfers : uploadChunkResponse(t, "any")
    \/ \E t \in Transfers : streamData(t, MaxPush)
    \/ \E t \in Transfers : streamCut(t)
    \/ \E t \in Transfers : streamChunkResponse(t, "any")
    \/ \E t \in Transfers : streamEnd(t)
    \/ \E t \in Transfers : streamFlushResponse(t, "any")
    \/ \E t \in Transfers : streamError(t)
    \/ \E t \in Transfers : callCreateUpload(t, Sizes)
    \/ \E t \in Transfers : callGetUploadStatus(t, Sizes)
    \/ \E t \in Transfers : updateUpload(t)
    \/ \E t \in Transfers : deleteUpload(t)
    \/ \E t \in Transfers : directResponse(t, "any")
    \/ \E t \in Transfers : signalAbort(t)

Spec == Init /\ [][Next]_vars

\* Two transfers on one client in Node.js against exact servers, and abort():
\* transfer 1 from a buffer or a push stream, transfer 2 from a buffer.
ClientSources(t) == IF t = 1 THEN {"buffer", "stream"} ELSE {"buffer"}
ClientSizes == {ClientSize}

InitClient == Init /\ isNode

NextClient ==
    \/ \E t \in AllTransfers : upload(t, ClientSources(t), ClientSizes)
    \/ \E t \in AllTransfers : createUploadResponse(t, "exact")
    \/ \E t \in AllTransfers : uploadChunkResponse(t, "exact")
    \/ \E t \in AllTransfers : streamData(t, ClientSize)
    \/ \E t \in AllTransfers : streamCut(t)
    \/ \E t \in AllTransfers : streamChunkResponse(t, "exact")
    \/ \E t \in AllTransfers : streamEnd(t)
    \/ \E t \in AllTransfers : streamFlushResponse(t, "exact")
    \/ \E t \in AllTransfers : signalAbort(t)
    \/ abort

SpecClient == InitClient /\ [][NextClient]_vars

\* One upload with a progress callback, from any source, against a server
\* that acks what it holds.
NextProgress ==
    \/ \E t \in Transfers : upload(t, Sources, Sizes)
    \/ \E t \in Transfers : fileUpload(t)
    \/ \E t \in Transfers : createUploadResponse(t, "exact")
    \/ \E t \in Transfers : uploadChunkResponse(t, "exact")
    \/ \E t \in Transfers : streamData(t, MaxPush)
    \/ \E t \in Transfers : streamCut(t)
    \/ \E t \in Transfers : streamChunkResponse(t, "exact")
    \/ \E t \in Transfers : streamEnd(t)
    \/ \E t \in Transfers : streamFlushResponse(t, "exact")
    \/ \E t \in Transfers : onUploadProgress(t)

SpecProgress == InitClient /\ [][NextProgress]_vars

\* One transfer through a pull-based driver (buffer, blob or file on disk),
\* first or resumed, with every server response and cancellation through its
\* per-call signal.  Every request handed to the transport settles: its
\* promise is resolved or rejected, and the code after the await runs.
PullSources == {"buffer", "blob"}

NextPull ==
    \/ \E t \in Transfers : upload(t, PullSources, Sizes)
    \/ \E t \in Transfers : resumeUpload(t, PullSources, Sizes)
    \/ \E t \in Transfers : fileUpload(t)
    \/ \E t \in Transfers : resumeFileUpload(t)
    \/ \E t \in Transfers : createUploadResponse(t, "any")
    \/ \E t \in Transfers : getUploadStatusResponse(t, "any")
    \/ \E t \in Transfers : uploadChunkResponse(t, "any")
    \/ \E t \in Transfers : signalAbort(t)

EveryRequestSettles ==
    \A t \in Transfers :
        /\ WF_vars(createUploadResponse(t, "any"))
        /\ WF_vars(getUploadStatusResponse(t, "any"))
        /\ WF_vars(uploadChunkResponse(t, "any"))

SpecPull == Init /\ [][NextPull]_vars /\ EveryRequestSettles

----------------------------------------------------------------------------
\* Vocabulary of the properties.

\* The chunk requests of transfer t, in the order they were handed over.
ChunkReqs(t) == SelectSeq(reqs[t], LAMBDA r : r.kind = "chunk")

\* The chunk requests of transfer t the transport has put on the network.
SentChunks(t) == {i \in Chunks(t) : reqs[t][i].sent}

CeilDiv(n, d) == (n + d - 1) \div d

Resolved(t) == call[t].pc = "done" /\ call[t].outcome = "resolved"
Rejected(t) == call[t].pc = "done" /\ call[t].outcome = "rejected"

\* Every request of transfer t was answered by the server.
AllAnswered(t) == \A i \in 1..Len(reqs[t]) : reqs[t][i].status = "ok"

\* The call of transfer t is one of the four calls that transfer a source.
IsTransferCall(t) ==
    call[t].op \in {"upload", "resumeUpload", "fileUpload", "resumeFileUpload"}

\* The call of transfer t runs uploadBufferInChunks, uploadBlobInChunks or
\* uploadFileInChunks.
IsPull(t) == IsTransferCall(t) /\ Driver(t) \in {"buffer", "blob", "file"}

\* The cancellation token the call of transfer t observes is set.
TokenSet(t) == call[t].pc # "idle" /\ TransportAborted(t)

\* Something other than cancellation has failed in transfer t.
OtherFailure(t) ==
    \/ ~isNode
    \/ stream[t].errored
    \/ \E i \in 1..Len(reqs[t]) :
          reqs[t][i].status = "failed" \/ ~reqs[t][i].location

\* The number of bytes a received-byte range header reports: end + 1 for
\* bytes=<start>-<end>, 0 when the header is absent or of another form.
Acked(range) == IF range.form = "bytes" THEN range.last + 1 ELSE 0

\* All that belongs to transfer t.
Own(t) == <<call[t], drv[t], stream[t], reqs[t], srv[t]>>

\* The chunk requests an upload of a buffer of S bytes issues when it runs
\* alone from offset 0: the k-th declares [(k - 1) * C, min(k * C, S)).
AloneRange(k, S) ==
    [start |-> (k - 1) * chunkSize, end |-> Min(k * chunkSize, S)]

\* The creation response of transfer t came without a location header.
MissingLocation(t) ==
    \E i \in 1..Len(reqs[t]) :
        reqs[t][i].kind = "create" /\ reqs[t][i].status = "ok"
        /\ ~reqs[t][i].location

----------------------------------------------------------------------------
\* C1: an upload from offset 0 of a source of S bytes against a server that
\* acks exactly what it holds issues ceil(S/C) chunk requests, whatever the
\* source, and ends with the server holding S bytes.
C1_ExactUploadSendsCeilChunks ==
    \A t \in AllTransfers :
        ( /\ call[t].op \in {"upload", "fileUpload"}
          /\ Resolved(t)
          /\ drv[t].started /\ drv[t].start = 0
          /\ srv[t].exact
          /\ AllAnswered(t)
          /\ t \notin sigAborted
          /\ Driver(t) = "file" => call[t].fileSize = call[t].size
          /\ Driver(t) = "stream" =>
                stream[t].ended /\ stream[t].pushed = call[t].size )
        => /\ Len(ChunkReqs(t)) = CeilDiv(call[t].size, chunkSize)
           /\ srv[t].held = call[t].size

\* C2: a resumed call whose status query reports A < S sends no source byte
\* below A and its first chunk request declares [A, min(A + C, S)); when
\* A = S it issues no chunk request.  The source is the one upload() takes:
\* a push stream delivers the source from its first byte, S bytes at most.
C2_ResumeSendsNothingBelowAcked ==
    \A t \in AllTransfers :
        ( /\ call[t].op \in {"resumeUpload", "resumeFileUpload"}
          /\ drv[t].started
          /\ stream[t].pushed <= call[t].size )
        => LET A == drv[t].start
               S == call[t].size
               sent == ChunkReqs(t)
           IN /\ A < S =>
                   /\ \A k \in 1..Len(sent) :
                         sent[k].lo < sent[k].hi => sent[k].lo >= A
                   /\ Len(sent) > 0 =>
                         /\ sent[1].start = A
                         /\ sent[1].end = Min(A + chunkSize, S)
              /\ A = S => Len(sent) = 0

\* C3: after a chunk response that acks fewer bytes than the chunk's declared
\* end, the driver's position is the acked offset, and the next chunk request
\* starts there.
C3_ShortAckRestartsAtAcked ==
    \A t \in AllTransfers :
        LET i == drv[t].result.req
            acked == drv[t].result.uploadedBytes
        IN (i > 0 /\ reqs[t][i].kind = "chunk" /\ acked < reqs[t][i].end)
           => /\ drv[t].position = acked
              /\ i < Len(reqs[t]) => reqs[t][i + 1].start = acked

\* C4: after a chunk response that acks more bytes than the chunk's declared
\* end (and no more than the declared total), the driver's position is the
\* acked offset, and no later chunk request covers a byte below it.
C4_LongAckAdvancesToAcked ==
    \A t \in AllTransfers :
        LET i == drv[t].result.req
            acked == drv[t].result.uploadedBytes
        IN ( /\ i > 0 /\ reqs[t][i].kind = "chunk"
             /\ acked > reqs[t][i].end /\ acked <= call[t].size )
           => /\ drv[t].position = acked
              /\ \A j \in (i + 1)..Len(reqs[t]) : reqs[t][j].start >= acked

\* C5: a call whose cancellation token becomes set while it runs, nothing
\* else having failed, does not reject.
C5_CancelledCallNeverRejects ==
    \A t \in AllTransfers :
        ( /\ IsTransferCall(t) /\ TokenSet(t)
          /\ reqs[t] # <<>> /\ reqs[t][1].sent /\ ~OtherFailure(t) )
        => ~Rejected(t)

\* C6: a call whose cancellation token is set before its first chunk request
\* is sent (also before the call starts), nothing else having failed, does
\* not reject.
C6_CancelBeforeFirstChunkIsNoOp ==
    \A t \in AllTransfers :
        ( /\ IsTransferCall(t) /\ TokenSet(t)
          /\ SentChunks(t) = {} /\ ~OtherFailure(t) )
        => ~Rejected(t)

\* C7: after abort(), no transfer that was in flight at that moment has
\* another chunk request sent, whether or not it runs under its own handle.
C7_AbortStopsEveryTransferInFlight ==
    [][\A t \in inFlightAtAbort : SentChunks(t)' = SentChunks(t)]_vars

\* C8: an upload without a per-call handle that starts after abort() has all
\* its requests sent for as long as abort() is not called again.
C8_UploadAfterAbortIsNotCancelled ==
    \A t \in AllTransfers :
        ( /\ call[t].pc # "idle" /\ ~call[t].signal
          /\ call[t].abortsAtStart > 0
          /\ call[t].abortsAtStart = abortController )
        => \A i \in 1..Len(reqs[t]) : reqs[t][i].sent

\* C9: at most one chunk request of a transfer is in flight at any time,
\* whatever the sizes of the data events of a push stream (which delivers no
\* more than the bytes that remain to be sent).
C9_OneChunkInFlight ==
    \A t \in AllTransfers :
        drv[t].start + stream[t].pushed <= call[t].size
        => Cardinality({i \in SentChunks(t) : reqs[t][i].status = "pending"}) <= 1

\* C10: when the creation response has no location header, createUpload and
\* every upload call built on it reject, naming the failed session creation,
\* and no chunk request is issued.
C10_MissingLocationRejects ==
    \A t \in AllTransfers :
        MissingLocation(t)
        => /\ Rejected(t)
           /\ call[t].error =
                 [name |-> "Error",
                  ctx |-> (IF IsTransferCall(t)
                           THEN <<ContextOf(call[t].op)>> ELSE <<>>)
                          \o <<"Session creation failed",
                               "Missing Location header in response">>]
           /\ Chunks(t) = {}
           /\ ~drv[t].started

C10_Witness ==
    \E t \in AllTransfers :
        MissingLocation(t) /\ call[t].op = "fileUpload" /\ Rejected(t)

\* C11: an upload from offset 0 of a push stream that pushes exactly S bytes
\* and ends, completing without cancellation, transmits chunk bodies that, in the order of their requests, are
\* the S source bytes, each once; the last body has S mod C bytes when that
\* is not 0.
C11_StreamSendsEachByteOnce ==
    \A t \in AllTransfers :
        ( /\ call[t].op = "upload" /\ Driver(t) = "stream"
          /\ Resolved(t)
          /\ drv[t].started /\ drv[t].start = 0
          /\ stream[t].ended /\ stream[t].pushed = call[t].size
          /\ AllAnswered(t)
          /\ t \notin sigAborted )
        => LET sent == ChunkReqs(t)
               n == Len(sent)
           IN /\ \A k \in 1..n :
                    /\ sent[k].lo = (IF k = 1 THEN 0 ELSE sent[k - 1].hi)
                    /\ sent[k].lo <= sent[k].hi
              /\ (IF n = 0 THEN 0 ELSE sent[n].hi) = call[t].size
              /\ call[t].size % chunkSize # 0 =>
                    /\ n > 0
                    /\ sent[n].hi - sent[n].lo = call[t].size % chunkSize

C11_Witness ==
    \E t \in AllTransfers :
        /\ call[t].op = "upload" /\ Driver(t) = "stream" /\ Resolved(t)
        /\ drv[t].start = 0
        /\ stream[t].ended /\ stream[t].pushed = call[t].size
        /\ AllAnswered(t) /\ t \notin sigAborted
        /\ call[t].size = 3 /\ chunkSize = 2
        /\ Len(ChunkReqs(t)) = 2

\* C12: a public call one of whose requests the transport failed, for a
\* reason other than cancellation, does not end resolved.
C12_NoFailureIsSwallowed ==
    \A t \in AllTransfers :
        ( /\ call[t].pc = "done"
          /\ ~TransportAborted(t)
          /\ \E i \in 1..Len(reqs[t]) : reqs[t][i].status = "failed" )
        => Rejected(t)

\* C13: a transport failure of the request of createUpload or of
\* getUploadStatus reaches the caller as an Error whose message starts with
\* the context of that operation, not as the transport's own error.
C13_SessionFailuresAreWrapped ==
    \A t \in AllTransfers :
        ( /\ call[t].op \in {"createUpload", "getUploadStatus"}
          /\ call[t].pc = "done"
          /\ reqs[t][1].status = "failed" )
        => /\ Rejected(t)
           /\ call[t].error.name = "Error"
           /\ Len(call[t].error.ctx) >= 2
           /\ call[t].error.ctx[1] =
                 (IF call[t].op = "createUpload"
                  THEN "Session creation failed" ELSE "Status query failed")

\* C14: when the status query of resumeUpload ends with AbortError the call
\* resolves, and when it ends with any other error the call rejects with an
\* Error whose message starts with 'Upload failed'; either way no driver is
\* started and no chunk request is issued.
C14_ResumeAfterStatusQueryFails ==
    \A t \in AllTransfers :
        ( /\ call[t].op = "resumeUpload"
          /\ reqs[t] # <<>>
          /\ reqs[t][1].status \notin {"pending", "ok"} )
        => /\ ~drv[t].started
           /\ Chunks(t) = {}
           /\ IF reqs[t][1].status = "aborted"
              THEN Resolved(t)
              ELSE /\ Rejected(t)
                   /\ call[t].error.name = "Error"
                   /\ call[t].error.ctx[1] = "Upload failed"

C14_Witness ==
    \E t \in AllTransfers :
        /\ call[t].op = "resumeUpload"
        /\ reqs[t] # <<>> /\ reqs[t][1].status = "aborted"
        /\ Resolved(t) /\ Chunks(t) = {}

\* C15: the first request of a resumeUpload / resumeFileUpload call is its
\* only status query, the first request of an upload / fileUpload call is its
\* only session creation, every later request is a chunk, chunks are sent
\* only after that first request was answered, and the driver starts at the
\* offset that answer reported; also for a call that resumes the session of
\* a failed or cancelled call.
C15_OneSessionRequestSetsTheStart ==
    \A t \in AllTransfers :
        (IsTransferCall(t) /\ reqs[t] # <<>>)
        => /\ reqs[t][1].kind =
                 (IF call[t].op \in {"resumeUpload", "resumeFileUpload"}
                  THEN "status" ELSE "create")
           /\ \A i \in 2..Len(reqs[t]) : reqs[t][i].kind = "chunk"
           /\ Chunks(t) # {} => drv[t].started /\ reqs[t][1].status = "ok"
           /\ drv[t].started => drv[t].start = Acked(reqs[t][1].range)

C15_Witness ==
    \E t \in AllTransfers :
        /\ call[t].op = "resumeUpload" /\ call[t].prior
        /\ drv[t].started /\ drv[t].start = 1
        /\ Chunks(t) # {}

\* C16: createUpload returns the number of bytes the range header of the
\* creation response reports (0 without one), and an upload() whose creation
\* response reports A bytes sends its first chunk from A, and no chunk at all
\* when A >= S.  A push stream delivers no more than the S declared bytes.
C16_UploadStartsAtPreSeededOffset ==
    \A t \in AllTransfers :
        /\ (call[t].op = "createUpload" /\ Resolved(t))
           => drv[t].result.uploadedBytes = Acked(reqs[t][1].range)
        /\ ( /\ call[t].op = "upload" /\ drv[t].started
             /\ stream[t].pushed <= call[t].size )
           => LET A == Acked(reqs[t][1].range)
                  sent == ChunkReqs(t)
              IN /\ Len(sent) > 0 => sent[1].start = A
                 /\ A >= call[t].size => Len(sent) = 0

\* C17: two uploads that run concurrently on one client share no
\* per-transfer state: no step of one changes anything that belongs to the
\* other, and under every interleaving an upload of a buffer issues the chunk
\* ranges it issues when run alone.
C17_ConcurrentUploadsShareNothing ==
    /\ [](\A t \in AllTransfers :
            (call[t].op = "upload" /\ Driver(t) = "buffer")
            => \A k \in 1..Len(ChunkReqs(t)) :
                  /\ ChunkReqs(t)[k].start = AloneRange(k, call[t].size).start
                  /\ ChunkReqs(t)[k].end = AloneRange(k, call[t].size).end
                  /\ ChunkReqs(t)[k].lo = ChunkReqs(t)[k].start
                  /\ ChunkReqs(t)[k].hi = ChunkReqs(t)[k].end)
    /\ [][\A t, u \in AllTransfers :
             (t # u /\ Own(t)' # Own(t)) => Own(u)' = Own(u)]_vars

C17_Witness ==
    /\ \A t \in AllTransfers : call[t].pc = "driver" /\ Chunks(t) # {}
    /\ Driver(1) = "stream" /\ Driver(2) = "buffer"
    /\ Len(ChunkReqs(2)) = 2 /\ Pending(1) # {}

C19_AckedIsEndPlusOne ==
    \A t \in AllTransfers :
        LET res == drv[t].result
        IN res.req > 0
           => /\ res.uploadedBytes = Acked(res.range)
              /\ res.range.form # "bytes" => res.uploadedBytes = 0
              /\ reqs[t][res.req].kind \in {"create", "status"}
                 => /\ res.range = reqs[t][res.req].range
                    /\ drv[t].started => drv[t].start = res.uploadedBytes

C19_Witness ==
    \E t \in AllTransfers :
        LET res == drv[t].result
        IN /\ res.req > 0 /\ reqs[t][res.req].kind = "chunk"
           /\ res.range = NoRange /\ res.uploadedBytes = 0
           /\ reqs[t][res.req].end = reqs[t][res.req].total
           /\ reqs[t][res.req].total = 2

\* C20: outside Node.js a call that needs the file system or a push stream
\* issues no request at all.
C20_MissingCapabilityFailsBeforeRequest ==
    \A t \in AllTransfers :
        (~isNode /\ IsTransferCall(t) /\ Driver(t) \in {"file", "stream"})
        => reqs[t] = <<>>

\* C21: an upload / resumeUpload call runs one driver, the blob driver for a
\* Blob, the stream driver for a push stream and the buffer driver for
\* anything else, and that driver works from the starting offset and under
\* the declared total of the call.
C21_OneDriverPerSourceShape ==
    \A t \in AllTransfers :
        (call[t].op \in {"upload", "resumeUpload"} /\ drv[t].started)
        => /\ drv[t].driver =
                 (CASE call[t].data = "blob" -> "blob"
                    [] call[t].data = "stream" -> "stream"
                    [] OTHER -> "buffer")
           /\ drv[t].attached => call[t].data = "stream"
           /\ \A i \in Chunks(t) :
                 /\ (reqs[t][i].via = "pull") = (call[t].data # "stream")
                 /\ reqs[t][i].total = call[t].size
           /\ Len(ChunkReqs(t)) > 0 => ChunkReqs(t)[1].start = drv[t].start

C21_Witness ==
    \E t \in AllTransfers :
        /\ call[t].op = "resumeUpload" /\ call[t].data = "stream"
        /\ drv[t].driver = "stream" /\ drv[t].start = 1
        /\ Len(ChunkReqs(t)) > 0

\* C22: every chunk request that is sent declares a range with
\* 0 <= start < end <= totalSize and end = min(start + chunkSize, totalSize),
\* the flush at the end of a stream included.  A push stream delivers the
\* bytes that remain to be sent, no more, and no fewer before it ends.
C22_ChunkBoundsAreProper ==
    \A t \in AllTransfers :
        ( /\ drv[t].start + stream[t].pushed <= call[t].size
          /\ stream[t].ended =>
                drv[t].start + stream[t].pushed = call[t].size )
        => \A i \in SentChunks(t) :
              /\ 0 <= reqs[t][i].start
              /\ reqs[t][i].start < reqs[t][i].end
              /\ reqs[t][i].end <= reqs[t][i].total
              /\ reqs[t][i].end =
                    Min(reqs[t][i].start + chunkSize, reqs[t][i].total)

\* C23: after a chunk response without a range header the driver's position
\* is not beyond the start of that chunk, and the next chunk request starts
\* where that chunk started.
C23_NoHeaderMeansNoAdvance ==
    \A t \in AllTransfers :
        LET i == drv[t].result.req
        IN ( /\ i > 0 /\ reqs[t][i].kind = "chunk"
             /\ drv[t].result.range = NoRange )
           => /\ drv[t].position <= reqs[t][i].start
              /\ i < Len(reqs[t]) => reqs[t][i + 1].start = reqs[t][i].start

\* C24: the body of every chunk request of a buffer, Blob or file call is
\* the source bytes [start, end) of its declared range.  The file on disk
\* has the declared size.
C24_PullBodyIsDeclaredRange ==
    \A t \in AllTransfers :
        (Driver(t) = "file" => call[t].fileSize = call[t].size)
        => \A i \in Chunks(t) :
              reqs[t][i].via = "pull"
              => /\ reqs[t][i].lo = reqs[t][i].start
                 /\ reqs[t][i].hi = reqs[t][i].end

\* C25: a push stream of S bytes, S a positive multiple of C, uploaded from
\* offset 0, ends with nothing left in the accumulator, and the end callback
\* issues no chunk request.
C25_NoFlushWithoutLeftover ==
    \A t \in AllTransfers :
        ( /\ IsTransferCall(t) /\ Driver(t) = "stream"
          /\ drv[t].start = 0
          /\ stream[t].ended /\ stream[t].pushed = call[t].size
          /\ call[t].size > 0 /\ call[t].size % chunkSize = 0 )
        => /\ drv[t].chunksSize = 0
           /\ \A i \in Chunks(t) : reqs[t][i].via # "flush"

\* C26: in the stream driver the producer stays paused for as long as a chunk
\* upload started by the data callback is in flight: while such a request is
\* pending the stream is not flowing, so no data callback can run.
C26_ProducerPausedWhileUploading ==
    \A t \in AllTransfers :
        ( /\ IsTransferCall(t) /\ Driver(t) = "stream"
          /\ drv[t].start + stream[t].pushed <= call[t].size
          /\ \E i \in Pending(t) : reqs[t][i].via = "loop" )
        => ~stream[t].flowing

\* C27: in the stream driver, once a chunk upload of the call has failed, no
\* step of the same call delivers a data event or issues a chunk request.
C27_NothingAfterFailedChunk ==
    [][\A t \in AllTransfers :
          ( /\ IsTransferCall(t) /\ Driver(t) = "stream"
            /\ drv[t].start + stream[t].pushed <= call[t].size
            /\ \E i \in Chunks(t) : reqs[t][i].status = "failed"
            /\ call[t].prior' = call[t].prior )
          => /\ stream[t].pushed' = stream[t].pushed
             /\ Len(reqs[t]') = Len(reqs[t])]_vars

\* C28: in the stream driver a chunk cut by the data callback is not handed
\* to the transport when the cancellation token of the call is set by then:
\* every such request was started under a token that was not set.
C28_NoChunkStartedUnderSetToken ==
    \A t \in AllTransfers :
        ( /\ IsTransferCall(t) /\ Driver(t) = "stream"
          /\ drv[t].start + stream[t].pushed <= call[t].size )
        => \A i \in Chunks(t) : reqs[t][i].via = "loop" => reqs[t][i].sent

\* C29: every iteration of the loop that cuts chunks out of the accumulator
\* inside a data callback strictly reduces the buffered byte count, whatever
\* the starting offset and the size of the data event, so the loop ends.  The
\* stream holds no more bytes than the size declared for it.
C29_EachCutShrinksTheBuffer ==
    [][\A t \in AllTransfers :
          ( /\ running = {t} /\ Len(reqs[t]') > Len(reqs[t])
            /\ stream[t].pushed <= call[t].size )
          => drv[t].chunksSize' < drv[t].chunksSize]_vars

\* C30: for a positive chunk size every pull-based driver terminates, given
\* that each request settles: no chunk is requested at or beyond totalSize
\* (none at all when the starting offset is already there), the position
\* strictly increases with every successful chunk and the driver exits as
\* soon as it reaches totalSize, and every call that was started ends.
C30_PullDriversTerminate ==
    /\ [](\A t \in Transfers :
            IsPull(t) =>
               /\ \A i \in Chunks(t) : reqs[t][i].start < reqs[t][i].total
               /\ (drv[t].started /\ drv[t].start >= call[t].size)
                     => Chunks(t) = {})
    /\ [][\A t \in Transfers :
            ( /\ IsPull(t) /\ chunkSize > 0
              /\ \E i \in Chunks(t) : /\ reqs[t][i].status = "pending"
                                      /\ reqs[t][i].status' = "ok" )
            => /\ drv[t].position' > drv[t].position
               /\ drv[t].position' >= call[t].size
                     => /\ call[t].pc' = "done"
                        /\ Len(reqs[t]') = Len(reqs[t])]_vars
    /\ \A t \in Transfers :
          (IsPull(t) /\ call[t].pc \in {"session", "driver"})
             ~> (call[t].pc = "done")

C30_Witness ==
    /\ IsPull(1) /\ Resolved(1) /\ AllAnswered(1)
    /\ drv[1].start > 0
    /\ Cardinality(Chunks(1)) >= 2
    /\ drv[1].position >= call[1].size

\* C31: every chunk request the stream driver sends, the flush at the end of
\* the stream included, has a body as long as its declared range, end - start,
\* however many bytes the stream pushes; the starting offset is within the
\* declared size.
C31_StreamBodyFitsDeclaredRange ==
    \A t \in AllTransfers :
        ( /\ IsTransferCall(t) /\ Driver(t) = "stream"
          /\ call[t].size > 0 /\ drv[t].start <= call[t].size )
        => \A i \in SentChunks(t) :
              reqs[t][i].hi - reqs[t][i].lo = reqs[t][i].end - reqs[t][i].start

\* C32: the chunk requests of the stream driver declare contiguous, strictly
\* increasing ranges: each starts where the one before ended, the first at
\* the starting offset, and the k-th byte taken from the stream is sent under
\* offset start + k, also when one data event holds several chunks.  The
\* stream delivers no more than the bytes that remain to be sent.
C32_StreamRangesAreContiguous ==
    \A t \in AllTransfers :
        ( /\ IsTransferCall(t) /\ Driver(t) = "stream"
          /\ drv[t].start + stream[t].pushed <= call[t].size )
        => LET sent == ChunkReqs(t)
           IN \A k \in 1..Len(sent) :
                 /\ sent[k].start = (IF k = 1 THEN drv[t].start
                                     ELSE sent[k - 1].end)
                 /\ k > 1 => sent[k].start > sent[k - 1].start
                 /\ sent[k].start = drv[t].start + sent[k].lo

\* C33: once the promise of a transfer call has settled, resolved or rejected,
\* no step of that call starts a further chunk request.  A push stream
\* delivers no more than the bytes that remain to be sent.
C33_NoRequestAfterSettling ==
    [][\A t \in AllTransfers :
          ( /\ IsTransferCall(t) /\ call[t].pc = "done"
            /\ drv[t].start + stream[t].pushed <= call[t].size
            /\ call[t].pc' = "done" /\ call[t].op' = call[t].op )
          => Len(reqs[t]') = Len(reqs[t])]_vars

\* C34: when upload or resumeUpload resolves and no cancellation token was
\* ever set, the chunk requests the call sent declare every byte index from
\* the starting offset up to the declared size, whatever the source delivered.
C34_ResolvedMeansAllBytesSent ==
    \A t \in AllTransfers :
        ( /\ call[t].op \in {"upload", "resumeUpload"}
          /\ Resolved(t) /\ drv[t].started
          /\ t \notin sigAborted /\ ctlAborted = {} )
        => \A b \in drv[t].start..(call[t].size - 1) :
              \E i \in SentChunks(t) :
                 reqs[t][i].start <= b /\ b < reqs[t][i].end

\* C35: within one transfer call the total size declared to the server when
\* the session is created is the total size of every chunk's Content-Range,
\* which is the size the driver bounds its chunks and tests completion by.
C35_OneTotalSizePerCall ==
    \A t \in AllTransfers :
        IsTransferCall(t)
        => \A i, j \in 1..Len(reqs[t]) :
              (reqs[t][i].kind = "create" /\ reqs[t][j].kind = "chunk")
              => /\ reqs[t][i].total = reqs[t][j].total
                 /\ reqs[t][j].total = call[t].size

\* C36: when two transfers run on one client under per-call handles of their
\* own and the handle of one is set, the other is not cancelled (each of its
\* requests is sent and none ends cancelled), an upload of a buffer keeps the
\* chunk ranges it has when run alone, and the step that sets the handle
\* changes nothing that belongs to the other transfer.
C36_OtherHandleLeavesTransferAlone ==
    /\ [](\A t, u \in AllTransfers :
            ( /\ t # u
              /\ call[t].signal /\ t \in sigAborted
              /\ call[u].pc # "idle" /\ call[u].signal /\ u \notin sigAborted )
            => /\ \A i \in 1..Len(reqs[u]) :
                     reqs[u][i].sent /\ reqs[u][i].status # "canceled"
               /\ Rejected(u) => call[u].error.name \notin {"AbortError", "CanceledError"}
               /\ Driver(u) = "buffer" =>
                     \A k \in 1..Len(ChunkReqs(u)) :
                        /\ ChunkReqs(u)[k].start = AloneRange(k, call[u].size).start
                        /\ ChunkReqs(u)[k].end = AloneRange(k, call[u].size).end)
    /\ [][\A t, u \in AllTransfers :
             (t # u /\ t \in sigAborted' /\ t \notin sigAborted)
             => /\ Own(u)' = Own(u)
                /\ (u \in sigAborted') = (u \in sigAborted)]_vars

C36_Witness ==
    /\ call[1].signal /\ 1 \in sigAborted /\ call[1].pc = "done"
    /\ \E i \in Chunks(1) : reqs[1][i].status = "canceled"
    /\ call[2].signal /\ 2 \notin sigAborted /\ Resolved(2)
    /\ Len(ChunkReqs(2)) = 2 /\ AllAnswered(2)


====
